---- MODULE Spec2Model ----
(***************************************************************************)
(* Model of the fireplace thermostat controller                            *)
(* (controller-node/src/thermostat.cpp, driven by loop() and the MQTT /    *)
(* REST handlers of main.cpp).                                             *)
(*                                                                         *)
(* Units.  Temperatures are integers in half degrees Fahrenheit (120 is    *)
(* 60.0 F).  Durations and timestamps are integers in abstract clock       *)
(* units; the duration constants of config.h are scaled down to a few      *)
(* units each, keeping SENSOR_STALE_TIMEOUT, COOLDOWN_DURATION_MS and the  *)
(* hold duration below MAX_RUNTIME_MS as in README.md (5 min, 30 min,      *)
(* 4 h).  Blocking delay() calls inside one operation (a few hundred       *)
(* milliseconds) are below the resolution of one clock unit, so every      *)
(* millis() read inside one operation returns the same value.              *)
(***************************************************************************)
EXTENDS Integers, Sequences, FiniteSets, TLC

----------------------------------------------------------------------------
(* Bounds of the model *)

\* last clock value explored
MaxTime == 6
\* largest number of handler invocations (MQTT / REST requests) in one run
MaxEvents == 2
\* largest number of sensor readings in one run of SpecReadings
MaxReadings == 7
\* last clock value explored by SpecReadings
MaxReadTime == 7
\* largest number of restarts explored by SpecHost
MaxRestarts == 2
\* SpecWrap starts WrapLead clock units before the millisecond clock wraps
\* to 0 and explores WrapSpan units from there
WrapLead == 2
WrapSpan == 6
\* last value of the IR sender's clock explored by SpecSender
MaxSendTime == 6
\* iterations of the loop of sendTemp() after which it is taken not to return
MaxIterations == 12

----------------------------------------------------------------------------
(* Program constants (config.h), scaled *)

MIN_CYCLE_TIME == 2
SENSOR_STALE_TIMEOUT == 2
HOLD_DURATION_MS == 2
MAX_RUNTIME_MS == 3
COOLDOWN_DURATION_MS == 2
SETTINGS_SAVE_DEBOUNCE_MS == 1
TREND_SAMPLE_INTERVAL == 1
TREND_SAMPLES_REQUIRED == 3
\* half degrees: a sample-to-sample change above +0.5 F is Rising,
\* below -0.5 F is Falling
TREND_RISING_THRESHOLD == 1
TREND_FALLING_THRESHOLD == -1
\* width of the unsigned long millisecond clock, scaled
CLOCK_MOD == 64
\* largest value of the int8_t counter consecutiveTrend (127), scaled
INT8_MAX == 5
\* the API layer: the longest hold a request may ask for, in minutes, and
\* the milliseconds of a minute (60000UL) in the unit of the clock
MAX_HOLD_MINUTES == 3
MS_PER_MINUTE == 1
\* the range isValidTemperature() accepts, in half degrees
MIN_VALID_TEMP == 64
MAX_VALID_TEMP == 240
\* IRController, in units of 150 ms: MIN_SEND_INTERVAL (300 ms), and the
\* time sendRaw() takes to transmit (three repeats with delay(50))
MIN_SEND_INTERVAL == 2
SEND_DURATION == 1
\* the largest int
INT_MAX == 2147483647
INT_MIN == -2147483647 - 1
\* loop(): a reconnect attempt when now - lastWifiCheck > 10000 (ten
\* seconds are below one clock unit), a restart at the 30th attempt in a
\* row (scaled)
WIFI_RETRY_INTERVAL == 0
WIFI_MAX_RETRIES == 3

\* settings found in flash: the extremes setTargetTemp and setHysteresis
\* allow, <<60 F, 0.5 F>> and <<84 F, 5.0 F>>
Bands == {<<120, 1>>, <<168, 10>>}
\* a hold duration requested by the API layer (0 = use the default)
HoldRequests == {0, 3}
Humidities == {45}
\* minutes of a hold request as toInt() gives them (0 also for text that
\* is not a number)
MinutesArgs == {-1, 0, 1, MAX_HOLD_MINUTES, MAX_HOLD_MINUTES + 1}
\* arguments of sendTemp() and setCurrentTemp(), in whole degrees
TempArgs == {INT_MIN, 59, 61, 70, 79, 81, INT_MAX}
\* arguments of setLightLevel() and setTimerState(), uint8_t
LevelArgs == {0, 4, 5}
TimerArgs == {0, 10, 11}
\* change of the room temperature from one sensor reading to the next, in
\* half degrees: falling, steady, rising
Drifts == {-2, 0, 2}

\* unsigned subtraction now - ts of two unsigned long values
Elapsed(t, ts) == (t - ts) % CLOCK_MOD

\* arguments of the setters: target and hysteresis in half degrees (50 F,
\* 72 F, 200 F; 0 F, 2 F, 6 F) or the float NaN, offset in whole degrees
TargetArgs == {100, 144, 400}
HysteresisArgs == {0, 4, 12}
OffsetArgs == {0, 3, 6, 12}

----------------------------------------------------------------------------
(* float: the values the model uses are half degrees, and NaN, which every *)
(* ordered comparison answers with false and != with true                  *)

NaN == -1000
IsNaN(x) == x = NaN
\* the float infinities, as atof() gives them for "inf" and "-inf"
Inf == 2000
NegInf == -2000
\* payloads of the sensor topics as atof() gives them
TelemetryTemps == {130, MIN_VALID_TEMP - 1, MAX_VALID_TEMP + 1, NaN, Inf, NegInf}
TelemetryHumidities == {45, -1, 101, NaN, Inf}
FLess(a, b) == ~IsNaN(a) /\ ~IsNaN(b) /\ a < b
FNotEqual(a, b) == IsNaN(a) \/ IsNaN(b) \/ a # b
FAdd(a, b) == IF IsNaN(a) \/ IsNaN(b) THEN NaN ELSE a + b
FSub(a, b) == IF IsNaN(a) \/ IsNaN(b) THEN NaN ELSE a - b

----------------------------------------------------------------------------
(* IR command sender interface: what the Engine hands to IRController *)

Cmd(c) == [cmd |-> c, arg |-> 0]
CmdTemp(v) == [cmd |-> "SetTemp", arg |-> v]
CmdLightLevel(v) == [cmd |-> "SetLightLevel", arg |-> v]

\* the light cycle of sendLightToggle(): 0 -> 4 -> 3 -> 2 -> 1 -> 0
NextLightLevel(l) == IF l = 0 THEN 4 ELSE l - 1

\* what a call does to the state the IRController tracks
IrAfter(ir, c) ==
    IF c.cmd = "LightToggle"
    THEN [ir EXCEPT !.lightLevel = NextLightLevel(@)]
    ELSE IF c.cmd = "SetLightLevel" /\ c.arg <= 4
    THEN [ir EXCEPT !.lightLevel = c.arg]
    ELSE ir

\* s.ir is the IRController the Thermostat points to
Send(s, c) == [s EXCEPT !.out = Append(@, c), !.ir = IrAfter(@, c)]

----------------------------------------------------------------------------
(* The IRController on its own (ir_controller.cpp) *)

\* no transmission to measure a spacing from
NoGap == 1000

Min(a, b) == IF a < b THEN a ELSE b

\* int division in C truncates toward zero
TruncDiv(a, b) == IF a >= 0 THEN a \div b ELSE -((-a) \div b)

\* the IRController after its constructor, at boot
SenderBoot ==
    [ lightLevel |-> 0, timerState |-> 0, currentTemp |-> 70,
      lastSendTime |-> 0,
      clock |-> 0,      \* millis()
      lastTx |-> -1,    \* start of the most recent transmission (-1: none)
      txs |-> 0,        \* transmissions started by the most recent operation
      gap |-> NoGap,    \* smallest spacing between a transmission of the
                        \* most recent operation and the one before it
      done |-> TRUE ]   \* the most recent operation returned

\* an operation of the IRController begins
Called(x) ==
    [x EXCEPT !.txs = 0, !.gap = NoGap, !.done = TRUE]

\* canSend() answering true whenever it is asked
CanSend_Always(x) == TRUE

CanSend(x) == Elapsed(x.clock, x.lastSendTime) >= MIN_SEND_INTERVAL

\* sendRaw(): canSend() records the start, then three repeats are sent
SendRaw(x) ==
    IF CanSend(x)
    THEN [x EXCEPT !.lastSendTime = x.clock,
                   !.lastTx = x.clock,
                   !.txs = @ + 1,
                   !.gap = IF x.lastTx = -1 THEN @
                           ELSE Min(@, x.clock - x.lastTx),
                   !.clock = @ + SEND_DURATION]
    ELSE x

\* temp = ((temp + 1) / 2) * 2 on an int.  For INT_MAX the addition
\* overflows, which is undefined: the result wraps to INT_MIN, or the
\* expression is folded as if computed without overflow.
RoundedToEven(temp) ==
    IF temp = INT_MAX THEN {INT_MIN, INT_MAX - 1}
    ELSE { TruncDiv(temp + 1, 2) * 2 }

ClampedTemp(temp) == IF temp < 60 THEN 60 ELSE IF temp > 80 THEN 80 ELSE temp

\* setCurrentTemp(); rounded is what the rounding of the argument produced
SetCurrentTempOn(x, rounded) ==
    [Called(x) EXCEPT !.currentTemp = ClampedTemp(rounded)]

\* the loop of sendTemp(): one UP or DOWN code per iteration, then
\* delay(MIN_SEND_INTERVAL); n counts the iterations
RECURSIVE SendTempLoop(_, _, _)
SendTempLoop(x, temp, n) ==
    IF x.currentTemp = temp THEN x
    ELSE IF n = MaxIterations THEN [x EXCEPT !.done = FALSE]
    ELSE LET a == SendRaw(x)
             b == [a EXCEPT !.currentTemp =
                                IF x.currentTemp < temp THEN @ + 2 ELSE @ - 2,
                            !.clock = @ + MIN_SEND_INTERVAL]
         IN SendTempLoop(b, temp, n + 1)

\* sendTemp(); rounded is what the rounding of the argument produced
SendTempOn(x, rounded) == SendTempLoop(Called(x), ClampedTemp(rounded), 0)

SendHeatUpOn(x) ==
    IF x.currentTemp >= 80 THEN Called(x)
    ELSE [SendRaw(Called(x)) EXCEPT !.currentTemp = @ + 2]

SendHeatDownOn(x) ==
    IF x.currentTemp <= 60 THEN Called(x)
    ELSE [SendRaw(Called(x)) EXCEPT !.currentTemp = @ - 2]

SetLightLevelOn(x, level) ==
    IF level <= 4 THEN [Called(x) EXCEPT !.lightLevel = level] ELSE Called(x)

\* sendLightToggle() going from off to level 3
SendLightToggleOn_FromThree(x) ==
    [SendRaw(Called(x)) EXCEPT !.lightLevel = IF @ = 0 THEN 3 ELSE @ - 1]

SendLightToggleOn(x) ==
    [SendRaw(Called(x)) EXCEPT !.lightLevel = NextLightLevel(@)]

SetTimerStateOn(x, state) ==
    IF state <= 10 THEN [Called(x) EXCEPT !.timerState = state] ELSE Called(x)

SendTimerToggleOn(x) ==
    [SendRaw(Called(x)) EXCEPT !.timerState = (@ + 1) % 11]

----------------------------------------------------------------------------
VARIABLES
    th,          \* the Thermostat object; th.out is the sequence of calls
                 \* made on the IR sender by the most recent operation
    now,         \* millis()
    ticked,      \* loop() has called update() at this clock value
    op,          \* the most recent operation
    events,      \* handler invocations still to come
    was,         \* what th was before the most recent operation
    heatOnSince, \* clock value of the oldest heat-on command that no
                 \* heat-off or power-off command has followed (0: none)
    arg,         \* the argument of the most recent operation (0: none)
    believedSince, \* clock value of the most recent change of
                 \* th.fireplaceOn (0: never changed)
    detections,  \* external power-on detections since the rising trend
                 \* was last broken
    host,        \* main.cpp: WiFi status, the statics of loop(), whether
                 \* setup() has completed, restarts so far
    pc,          \* position of loop() inside turnFireplaceOn(): the number
                 \* of calls it has made on the IR sender (0: not inside)
    sender       \* the IRController on its own: its fields, its clock in
                 \* units of 150 ms, and what its most recent operation
                 \* transmitted

vars == <<th, now, ticked, op, events, was, heatOnSince, arg, believedSince,
          detections, host, pc, sender>>

----------------------------------------------------------------------------
(* Thermostat helpers *)

\* consecutiveTrend++ on an int8_t: the value after INT8_MAX is the lowest
Inc8(c) == IF c = INT8_MAX THEN -(INT8_MAX + 1) ELSE c + 1

IsSensorDataValid(s, t) ==
    IF s.lastSensorUpdate = 0 THEN FALSE
    ELSE Elapsed(t, s.lastSensorUpdate) < SENSOR_STALE_TIMEOUT

CanChangeState(s, t) ==
    IF s.lastStateChange = 0 THEN TRUE
    ELSE Elapsed(t, s.lastStateChange) >= MIN_CYCLE_TIME

MarkSettingsChanged(s, t) ==
    [s EXCEPT !.lastSettingsChange = t, !.settingsPendingSave = TRUE]

\* enterHold() leaving the window of a hold that is already active
EnterHoldOn_KeepsStart(s, t, durationMs) ==
    IF s.holdActive THEN s
    ELSE [s EXCEPT !.holdActive = TRUE,
                   !.holdStartTime = t,
                   !.holdDuration = IF durationMs > 0 THEN durationMs
                                    ELSE HOLD_DURATION_MS]

EnterHoldOn(s, t, durationMs) ==
    [s EXCEPT !.holdActive = TRUE,
              !.holdStartTime = t,
              !.holdDuration = IF durationMs > 0 THEN durationMs
                               ELSE HOLD_DURATION_MS]

ExitHoldOn(s) ==
    IF s.holdActive THEN [s EXCEPT !.holdActive = FALSE] ELSE s

LightToggles(s, n) ==
    LET RECURSIVE Rep(_, _)
        Rep(x, k) == IF k = 0 THEN x ELSE Rep(Send(x, Cmd("LightToggle")), k - 1)
    IN Rep(s, n)

\* the calls turnFireplaceOn() makes on the IR sender, in order
OnCalls(s) ==
    << Cmd("PowerOn"), Cmd("HeatOn"),
       CmdTemp((s.targetTemp \div 2) + s.fireplaceOffset),
       CmdLightLevel(4),
       Cmd("LightToggle"), Cmd("LightToggle"),
       Cmd("LightToggle"), Cmd("LightToggle") >>

\* turnFireplaceOn() without the sendHeatOn() call
TurnFireplaceOn_NoHeatOn(s, t) ==
    IF ~s.fireplaceOn THEN
        LET a == Send(s, Cmd("PowerOn"))
            c == Send(a, CmdTemp((s.targetTemp \div 2) + s.fireplaceOffset))
            d == LightToggles(Send(c, CmdLightLevel(4)), 4)
        IN [d EXCEPT !.fireplaceOn = TRUE,
                     !.heatingStartTime = t,
                     !.lastStateChange = t,
                     !.state = "HEATING"]
    ELSE s

TurnFireplaceOn(s, t) ==
    IF ~s.fireplaceOn THEN
        LET a == Send(s, Cmd("PowerOn"))
            b == Send(a, Cmd("HeatOn"))
            c == Send(b, CmdTemp((s.targetTemp \div 2) + s.fireplaceOffset))
            d == LightToggles(Send(c, CmdLightLevel(4)), 4)
        IN [d EXCEPT !.fireplaceOn = TRUE,
                     !.heatingStartTime = t,
                     !.lastStateChange = t,
                     !.state = "HEATING"]
    ELSE s

\* turnFireplaceOff() without the assignment to state
TurnFireplaceOff_KeepsState(s, t) ==
    IF s.fireplaceOn THEN
        [Send(s, Cmd("PowerOff")) EXCEPT !.fireplaceOn = FALSE,
                                         !.lastStateChange = t]
    ELSE s

TurnFireplaceOff(s, t) ==
    IF s.fireplaceOn THEN
        [Send(s, Cmd("PowerOff")) EXCEPT !.fireplaceOn = FALSE,
                                         !.lastStateChange = t,
                                         !.state = "SATISFIED"]
    ELSE s

\* evaluateState(), "Thermostat logic with hysteresis"
\* hysteresisControl() acting on the bounds of the band too
HysteresisControl_OnBounds(s, t) ==
    LET lowerBound == FSub(s.targetTemp, s.hysteresis)
        upperBound == FAdd(s.targetTemp, s.hysteresis)
    IN IF ~s.fireplaceOn THEN
           IF ~FLess(lowerBound, s.currentTemp) THEN
               IF CanChangeState(s, t) THEN TurnFireplaceOn(s, t) ELSE s
           ELSE [s EXCEPT !.state = "SATISFIED"]
       ELSE
           IF ~FLess(s.currentTemp, upperBound) THEN
               IF CanChangeState(s, t) THEN TurnFireplaceOff(s, t) ELSE s
           ELSE [s EXCEPT !.state = "HEATING"]

HysteresisControl(s, t) ==
    LET lowerBound == FSub(s.targetTemp, s.hysteresis)
        upperBound == FAdd(s.targetTemp, s.hysteresis)
    IN IF ~s.fireplaceOn THEN
           IF FLess(s.currentTemp, lowerBound) THEN
               IF CanChangeState(s, t) THEN TurnFireplaceOn(s, t) ELSE s
           ELSE [s EXCEPT !.state = "SATISFIED"]
       ELSE
           IF FLess(upperBound, s.currentTemp) THEN
               IF CanChangeState(s, t) THEN TurnFireplaceOff(s, t) ELSE s
           ELSE [s EXCEPT !.state = "HEATING"]

\* the shut-off branches without the call of turnFireplaceOff()
ShutOffToIdle_NoShutOff(s, t) == [s EXCEPT !.state = "IDLE"]

\* the two shut-off branches of evaluateState(): mode OFF and stale sensor
ShutOffToIdle(s, t) ==
    LET a == IF s.fireplaceOn /\ CanChangeState(s, t)
             THEN TurnFireplaceOff(s, t) ELSE s
    IN [a EXCEPT !.state = "IDLE"]

\* evaluateState() testing the hold before the cooldown
EvaluateState_HoldFirst(s, t) ==
    IF s.mode = "OFF" THEN ShutOffToIdle(s, t)
    ELSE IF s.holdActive THEN [s EXCEPT !.state = "HOLD"]
    ELSE IF s.inCooldown THEN [s EXCEPT !.state = "COOLDOWN"]
    ELSE IF ~IsSensorDataValid(s, t) THEN ShutOffToIdle(s, t)
    ELSE HysteresisControl(s, t)

EvaluateState(s, t) ==
    IF s.mode = "OFF" THEN ShutOffToIdle(s, t)
    ELSE IF s.inCooldown THEN [s EXCEPT !.state = "COOLDOWN"]
    ELSE IF s.holdActive THEN [s EXCEPT !.state = "HOLD"]
    ELSE IF ~IsSensorDataValid(s, t) THEN ShutOffToIdle(s, t)
    ELSE HysteresisControl(s, t)

\* detectExternalRemote() inferring whatever the believed heater state is
DetectExternalRemote_AnyState(s, t) ==
    IF ~IsSensorDataValid(s, t) THEN s
    ELSE IF Elapsed(t, s.lastTrendSample) < TREND_SAMPLE_INTERVAL THEN s
    ELSE
        LET a == [s EXCEPT !.lastTrendSample = t]
        IN IF a.previousTemp = 0 THEN [a EXCEPT !.previousTemp = a.currentTemp]
           ELSE
             LET delta == a.currentTemp - a.previousTemp
                 b == [a EXCEPT !.previousTemp = a.currentTemp]
                 newDirection == IF delta > TREND_RISING_THRESHOLD THEN 1
                                 ELSE IF delta < TREND_FALLING_THRESHOLD THEN -1
                                 ELSE 0
                 c == IF newDirection = b.trendDirection /\ newDirection # 0
                      THEN [b EXCEPT !.consecutiveTrend = Inc8(@)]
                      ELSE [b EXCEPT !.consecutiveTrend = IF newDirection # 0 THEN 1 ELSE 0,
                                     !.trendDirection = newDirection]
             IN IF c.consecutiveTrend >= TREND_SAMPLES_REQUIRED THEN
                    IF c.trendDirection = 1 THEN
                        EnterHoldOn([c EXCEPT !.fireplaceOn = TRUE,
                                              !.heatingStartTime = t,
                                              !.consecutiveTrend = 0], t, 0)
                    ELSE IF c.trendDirection = -1 THEN
                        EnterHoldOn([c EXCEPT !.fireplaceOn = FALSE,
                                              !.heatingStartTime = 0,
                                              !.consecutiveTrend = 0], t, 0)
                    ELSE c
                ELSE c

DetectExternalRemote(s, t) ==
    IF ~IsSensorDataValid(s, t) THEN s
    ELSE IF Elapsed(t, s.lastTrendSample) < TREND_SAMPLE_INTERVAL THEN s
    ELSE
        LET a == [s EXCEPT !.lastTrendSample = t]
        IN IF a.previousTemp = 0 THEN [a EXCEPT !.previousTemp = a.currentTemp]
           ELSE
             LET delta == a.currentTemp - a.previousTemp
                 b == [a EXCEPT !.previousTemp = a.currentTemp]
                 newDirection == IF delta > TREND_RISING_THRESHOLD THEN 1
                                 ELSE IF delta < TREND_FALLING_THRESHOLD THEN -1
                                 ELSE 0
                 c == IF newDirection = b.trendDirection /\ newDirection # 0
                      THEN [b EXCEPT !.consecutiveTrend = Inc8(@)]
                      ELSE [b EXCEPT !.consecutiveTrend = IF newDirection # 0 THEN 1 ELSE 0,
                                     !.trendDirection = newDirection]
             IN IF c.consecutiveTrend >= TREND_SAMPLES_REQUIRED THEN
                    IF c.trendDirection = 1 /\ ~c.fireplaceOn THEN
                        EnterHoldOn([c EXCEPT !.fireplaceOn = TRUE,
                                              !.heatingStartTime = t,
                                              !.consecutiveTrend = 0], t, 0)
                    ELSE IF c.trendDirection = -1 /\ c.fireplaceOn THEN
                        EnterHoldOn([c EXCEPT !.fireplaceOn = FALSE,
                                              !.heatingStartTime = 0,
                                              !.consecutiveTrend = 0], t, 0)
                    ELSE c
                ELSE c

\* checkRuntimeLimit() comparing with > instead of >=
CheckRuntimeLimit_Strict(s, t) ==
    IF ~s.fireplaceOn \/ s.heatingStartTime = 0 THEN s
    ELSE IF Elapsed(t, s.heatingStartTime) > MAX_RUNTIME_MS THEN
        [Send(s, Cmd("HeatOff")) EXCEPT !.inCooldown = TRUE,
                                        !.cooldownStartTime = t,
                                        !.heatingStartTime = 0]
    ELSE s

\* checkRuntimeLimit() turning the whole fireplace off
CheckRuntimeLimit_PowerOff(s, t) ==
    IF ~s.fireplaceOn \/ s.heatingStartTime = 0 THEN s
    ELSE IF Elapsed(t, s.heatingStartTime) >= MAX_RUNTIME_MS THEN
        [Send(s, Cmd("PowerOff")) EXCEPT !.inCooldown = TRUE,
                                         !.cooldownStartTime = t,
                                         !.heatingStartTime = 0,
                                         !.fireplaceOn = FALSE]
    ELSE s

CheckRuntimeLimit(s, t) ==
    IF ~s.fireplaceOn \/ s.heatingStartTime = 0 THEN s
    ELSE IF Elapsed(t, s.heatingStartTime) >= MAX_RUNTIME_MS THEN
        [Send(s, Cmd("HeatOff")) EXCEPT !.inCooldown = TRUE,
                                        !.cooldownStartTime = t,
                                        !.heatingStartTime = 0]
    ELSE s

\* checkCooldownComplete() comparing with > instead of >=
CheckCooldownComplete_Strict(s, t) ==
    IF ~s.inCooldown THEN s
    ELSE IF Elapsed(t, s.cooldownStartTime) > COOLDOWN_DURATION_MS THEN
        [s EXCEPT !.inCooldown = FALSE, !.cooldownStartTime = 0]
    ELSE s

CheckCooldownComplete(s, t) ==
    IF ~s.inCooldown THEN s
    ELSE IF Elapsed(t, s.cooldownStartTime) >= COOLDOWN_DURATION_MS THEN
        [s EXCEPT !.inCooldown = FALSE, !.cooldownStartTime = 0]
    ELSE s

\* the hold expiry of update() comparing with > instead of >=
HoldExpiry_Strict(s, t) ==
    IF s.holdActive /\ Elapsed(t, s.holdStartTime) > s.holdDuration
    THEN [s EXCEPT !.holdActive = FALSE] ELSE s

HoldExpiry(s, t) ==
    IF s.holdActive /\ Elapsed(t, s.holdStartTime) >= s.holdDuration
    THEN [s EXCEPT !.holdActive = FALSE] ELSE s

\* saveSettings() from update(), debounced
SaveIfDue(s, t) ==
    IF s.settingsPendingSave
       /\ Elapsed(t, s.lastSettingsChange) >= SETTINGS_SAVE_DEBOUNCE_MS
    THEN [s EXCEPT !.settingsPendingSave = FALSE, !.saves = @ + 1] ELSE s

\* the Thermostat as update() hands it to checkRuntimeLimit()
BeforeRuntimeCheck(s, t) == CheckCooldownComplete(HoldExpiry(s, t), t)

\* the Thermostat as update() hands it to detectExternalRemote()
BeforeDetect(s, t) == CheckRuntimeLimit(BeforeRuntimeCheck(s, t), t)

\* the Thermostat as update() hands it to evaluateState()
BeforeEvaluate(s, t) ==
    DetectExternalRemote(
        CheckRuntimeLimit(CheckCooldownComplete(HoldExpiry(s, t), t), t), t)

Update(s, t) == SaveIfDue(EvaluateState(BeforeEvaluate(s, t), t), t)

\* setTargetTemp() returning early on a value outside 60..84
SetTargetTempOn_Rejects(s, t, temp) ==
    IF FLess(temp, 120) \/ FLess(168, temp) THEN s
    ELSE IF FNotEqual(s.targetTemp, temp)
         THEN MarkSettingsChanged([s EXCEPT !.targetTemp = temp], t)
         ELSE s

SetTargetTempOn(s, t, temp) ==
    LET a == IF FLess(temp, 120) THEN 120 ELSE temp
        b == IF FLess(168, a) THEN 168 ELSE a
    IN IF FNotEqual(s.targetTemp, b)
       THEN MarkSettingsChanged([s EXCEPT !.targetTemp = b], t)
       ELSE s

SetHysteresisOn(s, t, hyst) ==
    LET a == IF FLess(hyst, 1) THEN 1 ELSE hyst
        b == IF FLess(10, a) THEN 10 ELSE a
    IN IF FNotEqual(s.hysteresis, b)
       THEN MarkSettingsChanged([s EXCEPT !.hysteresis = b], t)
       ELSE s

SetFireplaceOffsetOn(s, offset) ==
    IF offset >= 2 /\ offset <= 10 /\ offset % 2 = 0
    THEN [s EXCEPT !.fireplaceOffset = offset, !.saves = @ + 1]
    ELSE s

SetModeOn(s, t, newMode) ==
    IF s.mode # newMode THEN
        LET a == MarkSettingsChanged([s EXCEPT !.mode = newMode], t)
            b == IF a.mode = "OFF" /\ a.fireplaceOn
                 THEN TurnFireplaceOff(a, t) ELSE a
        IN IF b.mode = "OFF"
           THEN [b EXCEPT !.state = "IDLE", !.holdActive = FALSE]
           ELSE b
    ELSE s

UpdateSensorDataOn(s, t, temperature, humidity) ==
    [s EXCEPT !.currentTemp = temperature,
              !.currentHumidity = humidity,
              !.lastSensorUpdate = t]

ManualOnOn(s, t) ==
    EnterHoldOn([Send(s, Cmd("PowerOn")) EXCEPT !.fireplaceOn = TRUE,
                                                !.heatingStartTime = t,
                                                !.lastStateChange = t], t, 0)

ManualOffOn(s, t) ==
    EnterHoldOn([Send(s, Cmd("PowerOff")) EXCEPT !.fireplaceOn = FALSE,
                                                 !.heatingStartTime = 0,
                                                 !.lastStateChange = t], t, 0)

ManualHeatOnOn(s, t) == EnterHoldOn(Send(s, Cmd("HeatOn")), t, 0)

ManualHeatOffOn(s, t) == EnterHoldOn(Send(s, Cmd("HeatOff")), t, 0)

\* manualHeatUp() entering the hold as manualHeatOn() does
ManualHeatUpOn_EntersHold(s, t) == EnterHoldOn(Send(s, Cmd("HeatUp")), t, 0)

ManualHeatUpOn(s, t) == Send(s, Cmd("HeatUp"))

ManualHeatDownOn(s) == Send(s, Cmd("HeatDown"))

ManualLightToggleOn(s) == Send(s, Cmd("LightToggle"))

ManualTimerToggleOn(s) == Send(s, Cmd("TimerToggle"))

\* resetSafety() acting only during a cooldown
ResetSafetyOn_OnlyInCooldown(s) ==
    IF s.inCooldown
    THEN [s EXCEPT !.inCooldown = FALSE,
                   !.cooldownStartTime = 0,
                   !.heatingStartTime = 0]
    ELSE s

ResetSafetyOn(s) ==
    [s EXCEPT !.inCooldown = FALSE,
              !.cooldownStartTime = 0,
              !.heatingStartTime = 0]

----------------------------------------------------------------------------
(* Bookkeeping of the commanded heat element *)

HeatAfter(h, out, t) ==
    LET RECURSIVE Run(_, _)
        Run(x, i) ==
            IF i > Len(out) THEN x
            ELSE IF out[i].cmd = "HeatOn" THEN Run(IF x = 0 THEN t ELSE x, i + 1)
            ELSE IF out[i].cmd \in {"HeatOff", "PowerOff"} THEN Run(0, i + 1)
            ELSE Run(x, i + 1)
    IN Run(h, 1)

Fresh(s) == [s EXCEPT !.out = <<>>, !.saves = 0]

Before(s) == Fresh(s)

\* temperatures the sensor node reports: one degree outside the band and
\* its two edges
SensorTemps(s) ==
    { s.targetTemp - s.hysteresis - 2, s.targetTemp - s.hysteresis,
      s.targetTemp + s.hysteresis, s.targetTemp + s.hysteresis + 2 }

----------------------------------------------------------------------------
(* The API layer: mqttCallback and the REST handlers *)

IsValidFloat(value) == value \notin {NaN, Inf, NegInf}

\* isValidTemperature() checking only that the value is finite
IsValidTemperature_FiniteOnly(temp) == IsValidFloat(temp)

IsValidTemperature(temp) ==
    IsValidFloat(temp) /\ temp >= MIN_VALID_TEMP /\ temp <= MAX_VALID_TEMP

\* mqttCallback, TOPIC_SENSOR_TEMP
MqttSensorTempOn(s, t, temp, oversized) ==
    IF oversized THEN s
    ELSE IF ~IsValidTemperature(temp) THEN s
    ELSE UpdateSensorDataOn(s, t, temp, s.currentHumidity)

\* mqttCallback, TOPIC_SENSOR_HUMIDITY
MqttSensorHumidityOn(s, t, humidity, oversized) ==
    IF oversized THEN s
    ELSE IF ~IsValidFloat(humidity) \/ humidity < 0 \/ humidity > 100 THEN s
    ELSE UpdateSensorDataOn(s, t, s.currentTemp, humidity)

\* mqttCallback, TOPIC_CMD_TARGET
MqttTargetOn(s, t, target) ==
    IF ~IsValidTemperature(target) THEN s ELSE SetTargetTempOn(s, t, target)

\* ThermostatWebServer::handleSetTarget
HandleSetTargetOn(s, t, target) ==
    IF ~IsValidTemperature(target) THEN s ELSE SetTargetTempOn(s, t, target)

\* mqttCallback, TOPIC_CMD_HOLD with a number of minutes
MqttHoldOn(s, t, minutes) ==
    IF minutes > 0 /\ minutes <= MAX_HOLD_MINUTES
    THEN EnterHoldOn(s, t, minutes * MS_PER_MINUTE)
    ELSE s

\* handleHoldEnter() without the upper limit on the minutes
HandleHoldEnterOn_NoLimit(s, t, minutes) ==
    LET duration == IF minutes > 0 THEN minutes * MS_PER_MINUTE ELSE 0
    IN EnterHoldOn(s, t, duration)

\* ThermostatWebServer::handleHoldEnter with a minutes parameter
HandleHoldEnterOn(s, t, minutes) ==
    LET duration == IF minutes > 0 /\ minutes <= MAX_HOLD_MINUTES
                    THEN minutes * MS_PER_MINUTE ELSE 0
    IN EnterHoldOn(s, t, duration)

----------------------------------------------------------------------------
(* State after the constructor and begin(); loadSettings() may have read   *)
(* the target, the hysteresis and the mode from flash.                     *)

\* the Thermostat and its IRController after their constructors and
\* begin(), which read these four settings from flash
Constructed(target, hyst, m, offset) ==
    [ targetTemp |-> target, hysteresis |-> hyst, mode |-> m,
      fireplaceOffset |-> offset,
      state |-> "IDLE", currentTemp |-> 0, currentHumidity |-> 0,
      fireplaceOn |-> FALSE,
      lastSensorUpdate |-> 0, lastStateChange |-> 0,
      holdActive |-> FALSE, holdStartTime |-> 0,
      holdDuration |-> HOLD_DURATION_MS,
      heatingStartTime |-> 0, cooldownStartTime |-> 0,
      inCooldown |-> FALSE,
      lastSettingsChange |-> 0, settingsPendingSave |-> FALSE,
      previousTemp |-> 0, lastTrendSample |-> 0,
      trendDirection |-> 0, consecutiveTrend |-> 0,
      ir |-> [lightLevel |-> 0],
      out |-> <<>>,
      saves |-> 0 ]   \* writes to flash made by the most recent operation

\* ESP.restart(): everything in RAM is lost, the saved settings are read
\* back (no setter runs in the specification that restarts, so that the
\* flash holds the settings of s)
Restarted(s) ==
    Constructed(s.targetTemp, s.hysteresis, s.mode, s.fireplaceOffset)

\* setup() has completed with WiFi connected
HostUp ==
    [ wifiUp |-> TRUE, running |-> TRUE, wifiRetryCount |-> 0,
      lastWifiCheck |-> 0, restarts |-> 0 ]

\* the program with millis() at t and nothing handled yet
BootAt(t) ==
    /\ th \in { Constructed(b[1], b[2], m, 4) : b \in Bands, m \in {"OFF", "HEAT"} }
    /\ detections = 0
    /\ host = HostUp
    /\ pc = 0
    /\ sender = SenderBoot
    /\ now = t
    /\ ticked = FALSE
    /\ op = "init"
    /\ was = Before(th)
    /\ heatOnSince = 0
    /\ arg = 0
    /\ believedSince = 0

Boot == BootAt(1)

Init == Boot /\ events = MaxEvents

\* the same program, explored one handler invocation deeper
InitDeep == Boot /\ events = MaxEvents + 1

\* the program up for 49.7 days with nothing handled: millis() is about to
\* wrap to 0
InitWrap == BootAt(CLOCK_MOD - WrapLead) /\ events = MaxEvents

----------------------------------------------------------------------------
(* Operations *)

\* a handler ran: th becomes s
Handled(name, a, s) ==
    /\ events > 0
    /\ host.running /\ host.wifiUp
    /\ events' = events - 1
    /\ th' = s
    /\ op' = name
    /\ arg' = a
    /\ was' = Before(th)
    /\ heatOnSince' = HeatAfter(heatOnSince, s.out, now)
    /\ believedSince' = IF s.fireplaceOn # th.fireplaceOn THEN now
                        ELSE believedSince
    /\ UNCHANGED <<now, ticked, detections, host, pc, sender>>

\* the clock advances by one unit.  One iteration of loop() is far shorter
\* than a clock unit, so update() has run at the current clock value.
AdvanceTo(limit) ==
    /\ now < limit
    /\ ticked \/ ~host.running
    /\ pc = 0
    /\ now' = now + 1
    /\ ticked' = FALSE
    /\ th' = Fresh(th)
    /\ op' = "advance"
    /\ arg' = 0
    /\ was' = Before(th)
    /\ UNCHANGED <<events, heatOnSince, believedSince, detections, host, pc, sender>>

Advance == AdvanceTo(MaxTime)

\* the clock advances by one unit, wrapping like the unsigned long millis()
AdvanceWrap ==
    /\ Elapsed(now, CLOCK_MOD - WrapLead) < WrapSpan
    /\ ticked
    /\ pc = 0
    /\ now' = (now + 1) % CLOCK_MOD
    /\ ticked' = FALSE
    /\ th' = Fresh(th)
    /\ op' = "advance"
    /\ arg' = 0
    /\ was' = Before(th)
    /\ UNCHANGED <<events, heatOnSince, believedSince, detections, host, pc, sender>>

AdvanceReadings == AdvanceTo(MaxReadTime)

\* loop(): thermostat.update().  Iterations of loop() with no handler and
\* no clock change between them are one Tick.
\* what one update() does to the bookkeeping variables; s is the
\* Thermostat after it
Updated(s) ==
    LET p == BeforeDetect(Fresh(th), now)
        m == BeforeEvaluate(Fresh(th), now)
    IN /\ heatOnSince' = HeatAfter(heatOnSince, s.out, now)
       /\ believedSince' = IF \/ m.fireplaceOn # th.fireplaceOn
                              \/ s.fireplaceOn # m.fireplaceOn
                           THEN now ELSE believedSince
       /\ detections' =
             IF m.fireplaceOn /\ ~p.fireplaceOn THEN detections + 1
             ELSE IF /\ m.lastTrendSample = now /\ p.lastTrendSample # now
                     /\ m.trendDirection # 1
                  THEN 0
             ELSE detections
       /\ ticked' = TRUE
       /\ arg' = 0
       /\ was' = Before(th)

\* loop() with WiFi connected
Tick ==
    /\ op # "tick"
    /\ host.running /\ host.wifiUp
    /\ pc = 0
    /\ th' = Update(Fresh(th), now)
    /\ Updated(Update(Fresh(th), now))
    /\ host' = [host EXCEPT !.wifiRetryCount = 0]
    /\ op' = "tick"
    /\ UNCHANGED <<now, events, pc, sender>>

\* mqttCallback, TOPIC_SENSOR_TEMP
SensorTemperature ==
    \E temp \in SensorTemps(th) :
        Handled("sensorTemp", temp,
                UpdateSensorDataOn(Fresh(th), now, temp, th.currentHumidity))

\* mqttCallback, TOPIC_SENSOR_HUMIDITY
SensorHumidity ==
    \E h \in Humidities :
        Handled("sensorHumidity", h,
                UpdateSensorDataOn(Fresh(th), now, th.currentTemp, h))

SetMode ==
    \E m \in {"OFF", "HEAT"} :
        Handled("setMode", 0, SetModeOn(Fresh(th), now, m))

ManualOn == Handled("manualOn", 0, ManualOnOn(Fresh(th), now))

ManualOff == Handled("manualOff", 0, ManualOffOn(Fresh(th), now))

ManualHeatOn == Handled("manualHeatOn", 0, ManualHeatOnOn(Fresh(th), now))

ManualHeatOff == Handled("manualHeatOff", 0, ManualHeatOffOn(Fresh(th), now))

EnterHold ==
    \E d \in HoldRequests :
        Handled("enterHold", d, EnterHoldOn(Fresh(th), now, d))

ExitHold == Handled("exitHold", 0, ExitHoldOn(Fresh(th)))

ResetSafety == Handled("resetSafety", 0, ResetSafetyOn(Fresh(th)))

ManualHeatUp == Handled("manualHeatUp", 0, ManualHeatUpOn(Fresh(th), now))

ManualHeatDown == Handled("manualHeatDown", 0, ManualHeatDownOn(Fresh(th)))

ManualLightToggle ==
    Handled("manualLightToggle", 0, ManualLightToggleOn(Fresh(th)))

ManualTimerToggle ==
    Handled("manualTimerToggle", 0, ManualTimerToggleOn(Fresh(th)))

SetTargetTemp ==
    \E v \in TargetArgs \cup {NaN} :
        Handled("setTargetTemp", v, SetTargetTempOn(Fresh(th), now, v))

SetHysteresis ==
    \E v \in HysteresisArgs \cup {NaN} :
        Handled("setHysteresis", v, SetHysteresisOn(Fresh(th), now, v))

SetFireplaceOffset ==
    \E v \in OffsetArgs :
        Handled("setFireplaceOffset", v, SetFireplaceOffsetOn(Fresh(th), v))

Next ==
    \/ Advance
    \/ Tick
    \/ SensorTemperature
    \/ SensorHumidity
    \/ SetMode
    \/ ManualOn
    \/ ManualOff
    \/ ManualHeatOn
    \/ ManualHeatOff
    \/ EnterHold
    \/ ExitHold
    \/ ResetSafety
    \/ ManualHeatUp
    \/ ManualHeatDown
    \/ ManualLightToggle
    \/ ManualTimerToggle

Spec == Init /\ [][Next]_vars

SpecDeep == InitDeep /\ [][Next]_vars

\* the settings interface: the setters, with update() running
NextSettings ==
    \/ Advance
    \/ Tick
    \/ SetTargetTemp
    \/ SetHysteresis
    \/ SetFireplaceOffset
    \/ SetMode

SpecSettings == InitDeep /\ [][NextSettings]_vars

\* mqttCallback, TOPIC_SENSOR_TEMP: the sensor node publishes at most one
\* reading per clock value; the first one is outside the band, every
\* later one differs from its predecessor by a drift
SensorReading ==
    /\ th.lastSensorUpdate # now
    /\ \E temp \in IF th.lastSensorUpdate = 0
                    THEN { th.targetTemp - th.hysteresis - 2,
                           th.targetTemp + th.hysteresis + 2 }
                    ELSE { th.currentTemp + d : d \in Drifts } :
          Handled("sensorTemp", temp,
                  UpdateSensorDataOn(Fresh(th), now, temp, th.currentHumidity))

\* the sensor node publishing a stream of readings, with update() running
InitReadings == Boot /\ events = MaxReadings

NextReadings ==
    \/ AdvanceReadings
    \/ Tick
    \/ SensorReading

SpecReadings == InitReadings /\ [][NextReadings]_vars

----------------------------------------------------------------------------
(* The host while WiFi is lost (main.cpp, loop() and setupWiFi())          *)

\* the environment: the access point goes away, or comes back
WifiLost ==
    /\ host.wifiUp
    /\ pc = 0
    /\ host' = [host EXCEPT !.wifiUp = FALSE]
    /\ th' = Fresh(th)
    /\ op' = "wifiLost"
    /\ arg' = 0
    /\ was' = Before(th)
    /\ UNCHANGED <<now, ticked, events, heatOnSince, believedSince,
                   detections, pc, sender>>

WifiFound ==
    /\ ~host.wifiUp
    /\ host' = [host EXCEPT !.wifiUp = TRUE]
    /\ th' = Fresh(th)
    /\ op' = "wifiFound"
    /\ arg' = 0
    /\ was' = Before(th)
    /\ UNCHANGED <<now, ticked, events, heatOnSince, believedSince,
                   detections, pc, sender>>

\* loop() with WiFi disconnected: update(), then a reconnect attempt when
\* one is due, and ESP.restart() at the WIFI_MAX_RETRIES-th in a row
LoopOffline ==
    /\ op # "loopOffline"
    /\ host.running /\ ~host.wifiUp
    /\ pc = 0
    /\ LET s == Update(Fresh(th), now)
           due == now - host.lastWifiCheck > WIFI_RETRY_INTERVAL
           count == host.wifiRetryCount + 1
       IN /\ Updated(s)
          /\ IF due /\ count >= WIFI_MAX_RETRIES
             THEN /\ th' = Restarted(s)
                  /\ host' = [host EXCEPT !.running = FALSE,
                                          !.wifiRetryCount = 0,
                                          !.lastWifiCheck = 0,
                                          !.restarts = @ + 1]
             ELSE /\ th' = s
                  /\ host' = IF due
                             THEN [host EXCEPT !.wifiRetryCount = count,
                                               !.lastWifiCheck = now]
                             ELSE host
    /\ op' = "loopOffline"
    /\ UNCHANGED <<now, events, pc, sender>>

\* setup() after a restart: setupWiFi() lets it complete when
\* autoConnect() succeeds and restarts the device when it fails
SetupWiFi ==
    /\ ~host.running
    /\ host.wifiUp \/ host.restarts < MaxRestarts
    /\ host' = IF host.wifiUp THEN [host EXCEPT !.running = TRUE]
               ELSE [host EXCEPT !.restarts = @ + 1]
    /\ th' = Fresh(th)
    /\ op' = "setup"
    /\ arg' = 0
    /\ was' = Before(th)
    /\ ticked' = FALSE
    /\ UNCHANGED <<now, events, heatOnSince, believedSince, detections, pc, sender>>

NextHost ==
    \/ Advance
    \/ Tick
    \/ LoopOffline
    \/ WifiLost
    \/ WifiFound
    \/ SetupWiFi
    \/ ManualOn
    \/ SensorTemperature

SpecHost == Init /\ [][NextHost]_vars

----------------------------------------------------------------------------
(* The REST handlers run in the task of the AsyncWebServer, not in loop():  *)
(* they can run while loop() waits in a delay() of turnFireplaceOn().      *)

\* the next update() reaches turnFireplaceOn() with the heater believed off
TurnOnDue ==
    /\ ~BeforeEvaluate(Fresh(th), now).fireplaceOn
    /\ Update(Fresh(th), now).fireplaceOn

\* update() up to the first call of turnFireplaceOn(), ir->sendOn()
TurnOnBegin ==
    /\ op # "tick"
    /\ host.running /\ host.wifiUp
    /\ pc = 0
    /\ TurnOnDue
    /\ LET s == Send(BeforeEvaluate(Fresh(th), now), Cmd("PowerOn"))
       IN /\ th' = s
          /\ Updated(s)
    /\ pc' = 1
    /\ op' = "tick"
    /\ UNCHANGED <<now, events, host, sender>>

\* the next call of turnFireplaceOn() on the IR sender, after its delay()
TurnOnStep ==
    /\ pc \in 1..(Len(OnCalls(th)) - 1)
    /\ LET c == OnCalls(th)[pc + 1]
       IN /\ th' = Send(th, c)
          /\ heatOnSince' = HeatAfter(heatOnSince, << c >>, now)
    /\ pc' = pc + 1
    /\ op' = "turnOnStep"
    /\ arg' = 0
    /\ was' = Before(th)
    /\ UNCHANGED <<now, ticked, events, believedSince, detections, host, sender>>

\* the assignments that end turnFireplaceOn(), and the rest of update()
TurnOnEnd ==
    /\ pc = Len(OnCalls(th))
    /\ th' = SaveIfDue([th EXCEPT !.fireplaceOn = TRUE,
                                  !.heatingStartTime = now,
                                  !.lastStateChange = now,
                                  !.state = "HEATING"], now)
    /\ believedSince' = IF th.fireplaceOn THEN believedSince ELSE now
    /\ pc' = 0
    /\ op' = "turnOnEnd"
    /\ arg' = 0
    /\ was' = Before(th)
    /\ UNCHANGED <<now, ticked, events, heatOnSince, detections, host, sender>>

NextAsync ==
    \/ Advance
    \/ ~TurnOnDue /\ Tick
    \/ TurnOnBegin
    \/ TurnOnStep
    \/ TurnOnEnd
    \/ pc = 0 /\ SensorTemperature
    \/ ManualHeatOff
    \/ ManualLightToggle

SpecAsync == Init /\ [][NextAsync]_vars

\* the Thermostat while millis() wraps around
NextWrap ==
    \/ AdvanceWrap
    \/ Tick
    \/ SensorTemperature
    \/ ManualOn
    \/ ManualOff
    \/ EnterHold

SpecWrap == InitWrap /\ [][NextWrap]_vars

----------------------------------------------------------------------------
(* The API layer: requests *)

MqttSensorTemp ==
    \E temp \in TelemetryTemps, oversized \in BOOLEAN :
        Handled(IF oversized THEN "mqttTempOversized" ELSE "mqttTemp", temp,
                MqttSensorTempOn(Fresh(th), now, temp, oversized))

MqttSensorHumidity ==
    \E h \in TelemetryHumidities, oversized \in BOOLEAN :
        Handled(IF oversized THEN "mqttHumidityOversized" ELSE "mqttHumidity",
                h, MqttSensorHumidityOn(Fresh(th), now, h, oversized))

MqttTarget ==
    \E v \in TargetArgs \cup {NaN} :
        Handled("mqttTarget", v, MqttTargetOn(Fresh(th), now, v))

HandleSetTarget ==
    \E v \in TargetArgs \cup {NaN} :
        Handled("restTarget", v, HandleSetTargetOn(Fresh(th), now, v))

MqttHold ==
    \E m \in MinutesArgs :
        Handled("mqttHold", m, MqttHoldOn(Fresh(th), now, m))

HandleHoldEnter ==
    \E m \in MinutesArgs :
        Handled("restHold", m, HandleHoldEnterOn(Fresh(th), now, m))

NextApi ==
    \/ Advance
    \/ Tick
    \/ MqttSensorTemp
    \/ MqttSensorHumidity
    \/ MqttTarget
    \/ HandleSetTarget
    \/ MqttHold
    \/ HandleHoldEnter

SpecApi == Init /\ [][NextApi]_vars

----------------------------------------------------------------------------
(* The IRController on its own: operations *)

\* an operation of the IRController ran: sender becomes x
SenderDid(name, a, x) ==
    /\ sender.done
    /\ sender.clock <= MaxSendTime
    /\ sender' = x
    /\ op' = name
    /\ arg' = a
    /\ UNCHANGED <<th, now, ticked, events, was, heatOnSince, believedSince,
                   detections, host, pc>>

\* time passes with no call on the IRController
SenderWait ==
    /\ sender.done
    /\ sender.clock < MaxSendTime
    /\ sender' = [Called(sender) EXCEPT !.clock = @ + 1]
    /\ op' = "wait"
    /\ arg' = 0
    /\ UNCHANGED <<th, now, ticked, events, was, heatOnSince,
                   believedSince, detections, host, pc>>

\* sendOn(), sendOff(), sendHeatOn(), sendHeatOff(): one code each
IrSendCode ==
    \E c \in {"PowerOn", "PowerOff", "HeatOn", "HeatOff"} :
          SenderDid(c, 0, SendRaw(Called(sender)))

IrSendHeatUp == SenderDid("sendHeatUp", 0, SendHeatUpOn(sender))

IrSendHeatDown ==
    SenderDid("sendHeatDown", 0, SendHeatDownOn(sender))

IrSendTemp ==
    \E t \in TempArgs : \E r \in RoundedToEven(t) :
          SenderDid("sendTemp", t, SendTempOn(sender, r))

IrSetCurrentTemp ==
    \E t \in TempArgs : \E r \in RoundedToEven(t) :
          SenderDid("setCurrentTemp", t, SetCurrentTempOn(sender, r))

IrSetLightLevel ==
    \E l \in LevelArgs :
          SenderDid("setLightLevel", l, SetLightLevelOn(sender, l))

IrSendLightToggle ==
    SenderDid("sendLightToggle", 0, SendLightToggleOn(sender))

IrSetTimerState ==
    \E v \in TimerArgs :
          SenderDid("setTimerState", v, SetTimerStateOn(sender, v))

IrSendTimerToggle ==
    SenderDid("sendTimerToggle", 0, SendTimerToggleOn(sender))

\* every operation that transmits, and the believed temperature
NextSender ==
    \/ SenderWait
    \/ IrSendCode
    \/ IrSendHeatUp
    \/ IrSendHeatDown
    \/ IrSendTemp
    \/ IrSetCurrentTemp
    \/ IrSendLightToggle

SpecSender == Init /\ [][NextSender]_vars

\* the believed light level and timer state
NextLights ==
    \/ SenderWait
    \/ IrSetLightLevel
    \/ IrSendLightToggle
    \/ IrSetTimerState
    \/ IrSendTimerToggle

SpecLights == Init /\ [][NextLights]_vars

----------------------------------------------------------------------------
(* Vocabulary of the properties *)

Cmds(out) == { out[i].cmd : i \in 1..Len(out) }

Count(out, c) == Cardinality({ i \in 1..Len(out) : out[i].cmd = c })

\* the heat-on sequence for target and offset of s
OnSequence(s) ==
    << Cmd("PowerOn"), Cmd("HeatOn"),
       CmdTemp((s.targetTemp \div 2) + s.fireplaceOffset),
       CmdLightLevel(4),
       Cmd("LightToggle"), Cmd("LightToggle"),
       Cmd("LightToggle"), Cmd("LightToggle") >>

\* the Thermostat as the most recent update() handed it to evaluateState()
AtEvaluate == BeforeEvaluate(was, now)

SensorFresh(s) ==
    s.lastSensorUpdate # 0 /\ now - s.lastSensorUpdate < SENSOR_STALE_TIMEOUT

CycleElapsed(s) ==
    s.lastStateChange = 0 \/ now - s.lastStateChange >= MIN_CYCLE_TIME

AutomaticControl(s) ==
    s.mode = "HEAT" /\ ~s.inCooldown /\ ~s.holdActive /\ SensorFresh(s)

----------------------------------------------------------------------------
(* C1: in Heat mode, out of cooldown and hold, with valid sensor data, the *)
(* heater believed off, the temperature below target - hysteresis and the  *)
(* cycle time elapsed, evaluateState issues the heat-on sequence, believes *)
(* the heater on and leaves the state Heating.                             *)
C1_HeatOnBelowBand ==
    op = "tick" =>
        LET m == AtEvaluate
        IN (/\ AutomaticControl(m)
            /\ ~m.fireplaceOn
            /\ m.currentTemp < m.targetTemp - m.hysteresis
            /\ CycleElapsed(m))
           => /\ th.out = m.out \o OnSequence(m)
              /\ th.fireplaceOn
              /\ th.state = "HEATING"

C1_Witness ==
    /\ op = "tick"
    /\ AutomaticControl(AtEvaluate)
    /\ ~AtEvaluate.fireplaceOn
    /\ AtEvaluate.currentTemp < AtEvaluate.targetTemp - AtEvaluate.hysteresis
    /\ AtEvaluate.lastStateChange # 0
    /\ now - AtEvaluate.lastStateChange = MIN_CYCLE_TIME
    /\ th.targetTemp = 168 /\ th.hysteresis = 10
    /\ th.out = OnSequence(th)
    /\ th.state = "HEATING"

(* C2: in Heat mode, out of cooldown and hold, with valid sensor data, the *)
(* heater believed on, the temperature above target + hysteresis and the   *)
(* cycle time elapsed, evaluateState issues exactly one power-off,         *)
(* believes the heater off and leaves the state Satisfied.                 *)
C2_HeatOffAboveBand ==
    op = "tick" =>
        LET m == AtEvaluate
        IN (/\ AutomaticControl(m)
            /\ m.fireplaceOn
            /\ m.currentTemp > m.targetTemp + m.hysteresis
            /\ CycleElapsed(m))
           => /\ th.out = m.out \o << Cmd("PowerOff") >>
              /\ Count(th.out, "PowerOff") = 1
              /\ ~th.fireplaceOn
              /\ th.state = "SATISFIED"

C2_Witness ==
    /\ op = "tick"
    /\ AutomaticControl(AtEvaluate)
    /\ AtEvaluate.fireplaceOn
    /\ AtEvaluate.currentTemp > AtEvaluate.targetTemp + AtEvaluate.hysteresis
    /\ now - AtEvaluate.lastStateChange = MIN_CYCLE_TIME
    /\ th.out = << Cmd("PowerOff") >>
    /\ ~th.fireplaceOn
    /\ th.state = "SATISFIED"


(* C3: the first update() at which the heater is believed on and          *)
(* now - heatingStartTime >= MAX_RUNTIME_MS sends exactly one heat-off to  *)
(* the IR sender, as the first command of that update(), and sets          *)
(* inCooldown, cooldownStartTime = now and heatingStartTime = 0, whatever  *)
(* the mode, the hold and the cycle time; an update() for which that does  *)
(* not hold sends no heat-off.                                             *)
RuntimeLimitDue ==
    /\ was.fireplaceOn
    /\ was.heatingStartTime # 0
    /\ now - was.heatingStartTime >= MAX_RUNTIME_MS

C3_RuntimeLimitForcesHeatOff ==
    op = "tick" =>
        /\ Count(th.out, "HeatOff") = (IF RuntimeLimitDue THEN 1 ELSE 0)
        /\ RuntimeLimitDue =>
              /\ th.out[1] = Cmd("HeatOff")
              /\ th.inCooldown
              /\ th.cooldownStartTime = now
              /\ th.heatingStartTime = 0
              /\ now - was.heatingStartTime = MAX_RUNTIME_MS

C3_Witness ==
    /\ op = "tick"
    /\ RuntimeLimitDue
    /\ was.holdActive /\ th.holdActive
    /\ th.out = << Cmd("HeatOff") >>
    /\ th.inCooldown
    /\ th.cooldownStartTime = now

(* C4: the heat element is never left commanded on for longer than         *)
(* MAX_RUNTIME_MS plus one tick period: a heat-off or power-off command    *)
(* follows every heat-on command within that time.                         *)
C4_MaxContinuousRuntime ==
    heatOnSince # 0 => now - heatOnSince <= MAX_RUNTIME_MS + 1

(* C5: while inCooldown is true no operation, automatic or manual, sends a *)
(* power-on or a heat-on command to the IR sender.                         *)
C5_NoHeatCommandInCooldown ==
    (was.inCooldown /\ th.inCooldown) =>
        Cmds(th.out) \cap {"PowerOn", "HeatOn"} = {}

(* C6: an update() that leaves inCooldown true or a hold active issues no  *)
(* power-on and no power-off command, in every mode.                       *)
C6_NoToggleInCooldownOrHold ==
    (op = "tick" /\ (th.inCooldown \/ th.holdActive)) =>
        Cmds(th.out) \cap {"PowerOn", "PowerOff"} = {}

(* C7: between operations the heater is believed on if and only if         *)
(* heatingStartTime is non-zero.                                           *)
C7_BelievedOnIffTimestamp ==
    th.fireplaceOn <=> (th.heatingStartTime # 0)

(* C8: after every update() the state follows the priority order: mode Off *)
(* gives Idle; otherwise inCooldown gives Cooldown; otherwise an active    *)
(* hold gives Hold; otherwise invalid sensor data gives Idle; and only     *)
(* when none of these applies does the band decide: Heating when the       *)
(* heater is believed on and Satisfied when it is believed off, unless the *)
(* cycle-time throttle has a toggle pending.                               *)
TogglePending ==
    \/ th.fireplaceOn /\ th.currentTemp > th.targetTemp + th.hysteresis
    \/ ~th.fireplaceOn /\ th.currentTemp < th.targetTemp - th.hysteresis

C8_StatePriorityOrder ==
    op = "tick" =>
        IF th.mode = "OFF" THEN th.state = "IDLE"
        ELSE IF th.inCooldown THEN th.state = "COOLDOWN"
        ELSE IF th.holdActive THEN th.state = "HOLD"
        ELSE IF ~SensorFresh(th) THEN th.state = "IDLE"
        ELSE ~TogglePending =>
               th.state = (IF th.fireplaceOn THEN "HEATING" ELSE "SATISFIED")

C8_Witness ==
    /\ op = "tick"
    /\ th.mode = "HEAT"
    /\ th.inCooldown /\ th.holdActive /\ ~SensorFresh(th)
    /\ th.state = "COOLDOWN"

(* C9: an update() clears inCooldown exactly when                          *)
(* now - cooldownStartTime >= COOLDOWN_DURATION_MS, never earlier.  With   *)
(* update() running at every clock value (the guard of Advance), every     *)
(* cooldown therefore ends: inCooldown never outlives                      *)
(* COOLDOWN_DURATION_MS, and once update() has run at a clock value the    *)
(* cooldown still in force is younger than COOLDOWN_DURATION_MS.           *)
CooldownExpired ==
    was.inCooldown /\ now - was.cooldownStartTime >= COOLDOWN_DURATION_MS

C9_CooldownExpiry ==
    /\ (op = "tick" /\ was.inCooldown) => (th.inCooldown <=> ~CooldownExpired)
    /\ th.inCooldown => now - th.cooldownStartTime <= COOLDOWN_DURATION_MS
    /\ (th.inCooldown /\ ticked) =>
           now - th.cooldownStartTime < COOLDOWN_DURATION_MS

C9_Witness ==
    /\ op = "tick"
    /\ CooldownExpired
    /\ now - was.cooldownStartTime = COOLDOWN_DURATION_MS
    /\ ~th.inCooldown
    /\ th.cooldownStartTime = 0

(* C10: setMode(OFF) always forces the state to Idle and clears an active  *)
(* hold, also when the mode was already Off.                               *)
C10_SetModeOffClearsHold ==
    (op = "setMode" /\ th.mode = "OFF") =>
        th.state = "IDLE" /\ ~th.holdActive

(* C11: when setMode(OFF) finds the heater believed on, it sends no        *)
(* power-off before the cycle time has elapsed since the last heater state *)
(* change.                                                                 *)
C11_OffModeShutoffThrottled ==
    (op = "setMode" /\ "PowerOff" \in Cmds(th.out)) => CycleElapsed(was)

(* C12: an update() never issues a power-on or power-off command less than *)
(* MIN_CYCLE_TIME after the most recent change of th.fireplaceOn, whether  *)
(* an automatic toggle, a manual command or the external-remote detector   *)
(* (earlier in that same update()) made the change.                        *)
C12_CycleTimeThrottle ==
    [][ (op' = "tick" /\ Cmds(th'.out) \cap {"PowerOn", "PowerOff"} # {}) =>
            LET m == BeforeEvaluate(Fresh(th), now)
                since == IF m.fireplaceOn # th.fireplaceOn THEN now
                         ELSE believedSince
            IN since = 0 \/ now - since >= MIN_CYCLE_TIME ]_vars

(* C13: an update() that finds the sensor data invalid never leaves the    *)
(* heater believed on without a reason that ends by itself: a cooldown     *)
(* younger than COOLDOWN_DURATION_MS, a hold (in Heat mode) younger than   *)
(* its duration, or a heater state change younger than MIN_CYCLE_TIME.     *)
(* In Heat mode with no hold and no cooldown the power-off is sent by the  *)
(* first update() at which the cycle time has elapsed, and the state after *)
(* every such update() is Idle.                                            *)
SensorInvalidAtTick == op = "tick" /\ ~SensorFresh(was)

C14_HumidityDoesNotRefresh ==
    /\ op = "sensorHumidity" => th.lastSensorUpdate = was.lastSensorUpdate
    /\ (op = "tick" /\ "HeatOn" \in Cmds(th.out)) => SensorFresh(was)

(* C15: setTargetTemp and setHysteresis reject an out-of-range value: the  *)
(* Thermostat is left as it was, settings not marked dirty.                *)
TargetInRange(v) == ~IsNaN(v) /\ v >= 120 /\ v <= 168

HysteresisInRange(v) == ~IsNaN(v) /\ v >= 1 /\ v <= 10

C15_OutOfRangeRejected ==
    /\ (op = "setTargetTemp" /\ ~TargetInRange(arg)) => th = was
    /\ (op = "setHysteresis" /\ ~HysteresisInRange(arg)) => th = was

(* C15 as amended: setTargetTemp and setHysteresis clamp a value below the *)
(* range to its lower bound and a value above it to its upper bound; the   *)
(* settings are marked dirty exactly when the stored value changes, and    *)
(* nothing else of the Thermostat changes.                                 *)
Clamp(v, lo, hi) == IF v < lo THEN lo ELSE IF v > hi THEN hi ELSE v

Dirty(s) == [s EXCEPT !.lastSettingsChange = now, !.settingsPendingSave = TRUE]

C15_OutOfRangeClamped ==
    /\ (op = "setTargetTemp" /\ ~IsNaN(arg) /\ ~TargetInRange(arg)) =>
          LET v == Clamp(arg, 120, 168)
          IN th = IF IsNaN(was.targetTemp) \/ was.targetTemp # v
                  THEN Dirty([was EXCEPT !.targetTemp = v]) ELSE was
    /\ (op = "setHysteresis" /\ ~IsNaN(arg) /\ ~HysteresisInRange(arg)) =>
          LET v == Clamp(arg, 1, 10)
          IN th = IF IsNaN(was.hysteresis) \/ was.hysteresis # v
                  THEN Dirty([was EXCEPT !.hysteresis = v]) ELSE was

C15_Witness ==
    /\ op = "setTargetTemp" /\ arg = 400
    /\ was.targetTemp = 120 /\ ~was.settingsPendingSave
    /\ th.targetTemp = 168 /\ th.settingsPendingSave

(* C16: after any sequence of setter calls targetTemp is in 60..84,        *)
(* hysteresis in 0.5..5.0 and fireplaceOffset an even integer in 2..10,    *)
(* and a setter called with an in-range value stores that value.           *)
C16_SettingsInRange ==
    /\ TargetInRange(th.targetTemp)
    /\ HysteresisInRange(th.hysteresis)
    /\ th.fireplaceOffset \in {2, 4, 6, 8, 10}
    /\ (op = "setTargetTemp" /\ TargetInRange(arg)) => th.targetTemp = arg
    /\ (op = "setHysteresis" /\ HysteresisInRange(arg)) => th.hysteresis = arg
    /\ (op = "setFireplaceOffset" /\ arg \in {2, 4, 6, 8, 10}) =>
          th.fireplaceOffset = arg

(* C17: manual on, off, heat-on and heat-off each send their IR command,   *)
(* update fireplaceOn and heatingStartTime (set by an on-command, cleared  *)
(* by an off-command) and enter the hold.                                  *)
HoldEntered == th.holdActive /\ th.holdStartTime = now

C17_ManualCommandsBookkeeping ==
    /\ op = "manualOn" =>
          /\ th.out = << Cmd("PowerOn") >>
          /\ th.fireplaceOn /\ th.heatingStartTime = now /\ HoldEntered
    /\ op = "manualOff" =>
          /\ th.out = << Cmd("PowerOff") >>
          /\ ~th.fireplaceOn /\ th.heatingStartTime = 0 /\ HoldEntered
    /\ op = "manualHeatOn" =>
          /\ th.out = << Cmd("HeatOn") >>
          /\ th.fireplaceOn /\ th.heatingStartTime = now /\ HoldEntered
    /\ op = "manualHeatOff" =>
          /\ th.out = << Cmd("HeatOff") >>
          /\ ~th.fireplaceOn /\ th.heatingStartTime = 0 /\ HoldEntered

(* C18: manual heat-up, heat-down, light-toggle and timer-toggle only send *)
(* their IR command: every field of the Thermostat is left as it was (the  *)
(* IRController tracks the light level).                                   *)
PassThrough ==
    [ manualHeatUp |-> "HeatUp", manualHeatDown |-> "HeatDown",
      manualLightToggle |-> "LightToggle", manualTimerToggle |-> "TimerToggle" ]

C18_PassThroughFrame ==
    op \in DOMAIN PassThrough =>
        th = [was EXCEPT !.out = << Cmd(PassThrough[op]) >>, !.ir = th.ir]

C18_Witness ==
    /\ op = "manualHeatUp"
    /\ th.out = << Cmd("HeatUp") >>
    /\ th.fireplaceOn /\ th.state = "HEATING" /\ ~th.holdActive
    /\ th.heatingStartTime # 0

(* C19: enterHold(d) sets holdActive, holdStartTime = now and holdDuration *)
(* = d when d > 0, else HOLD_DURATION_MS, also when a hold is already      *)
(* active, and changes nothing else; exitHold() clears holdActive and      *)
(* changes nothing else, so that without an active hold it changes nothing.*)
C19_EnterExitHold ==
    /\ op = "enterHold" =>
          th = [was EXCEPT !.holdActive = TRUE,
                           !.holdStartTime = now,
                           !.holdDuration = IF arg > 0 THEN arg
                                            ELSE HOLD_DURATION_MS]
    /\ op = "exitHold" =>
          /\ ~th.holdActive
          /\ th = [was EXCEPT !.holdActive = FALSE]
          /\ ~was.holdActive => th = was

C19_Witness ==
    /\ op = "enterHold" /\ arg = 3
    /\ was.holdActive /\ was.holdStartTime < now
    /\ was.holdDuration = HOLD_DURATION_MS
    /\ th.holdActive /\ th.holdStartTime = now /\ th.holdDuration = 3

(* C20: an update() clears an active hold exactly when                     *)
(* now - holdStartTime >= holdDuration, never earlier (the detector may    *)
(* start a new hold in that update()); evaluateState runs in that same     *)
(* update() without the hold.  With update() running at every clock value  *)
(* a hold never outlives its duration, so every hold ends unless a new one *)
(* is entered.                                                             *)
HoldExpired ==
    was.holdActive /\ now - was.holdStartTime >= was.holdDuration

DetectedAtTick == AtEvaluate.fireplaceOn # was.fireplaceOn

C20_HoldExpiry ==
    /\ (op = "tick" /\ was.holdActive /\ ~DetectedAtTick) =>
          /\ th.holdActive <=> ~HoldExpired
          /\ HoldExpired =>
                /\ th.state # "HOLD"
                /\ (/\ AutomaticControl(th) /\ ~was.fireplaceOn
                    /\ th.currentTemp < th.targetTemp - th.hysteresis
                    /\ CycleElapsed(was))
                   => th.out = OnSequence(th) /\ th.state = "HEATING"
    /\ th.holdActive => now - th.holdStartTime <= th.holdDuration
    /\ (th.holdActive /\ ticked) => now - th.holdStartTime < th.holdDuration

C20_Witness ==
    /\ op = "tick"
    /\ HoldExpired
    /\ now - was.holdStartTime = was.holdDuration
    /\ ~th.holdActive
    /\ th.out = OnSequence(th)
    /\ th.state = "HEATING"

----------------------------------------------------------------------------
(* C23: resetSafety() always clears inCooldown, cooldownStartTime and      *)
(* heatingStartTime, whether or not a cooldown is running, sends no IR     *)
(* command and leaves every other field of the Thermostat as it was.       *)
C23_ResetSafetyFrame ==
    op = "resetSafety" =>
        th = [was EXCEPT !.inCooldown = FALSE,
                         !.cooldownStartTime = 0,
                         !.heatingStartTime = 0]

\* resetSafety() called out of a cooldown with a running heating period
C23_Witness ==
    /\ op = "resetSafety"
    /\ ~was.inCooldown
    /\ was.fireplaceOn
    /\ was.heatingStartTime # 0
    /\ th.heatingStartTime = 0
    /\ th.fireplaceOn

(* C26: in Heat mode with valid sensor data, no hold and no cooldown, when *)
(* target - hysteresis <= currentTemp <= target + hysteresis, both bounds  *)
(* included, evaluateState sends no IR command, leaves fireplaceOn,        *)
(* heatingStartTime and lastStateChange unchanged, and the state is        *)
(* HEATING if the heater is believed on and SATISFIED if not.              *)
InBand(s) ==
    /\ s.targetTemp - s.hysteresis <= s.currentTemp
    /\ s.currentTemp <= s.targetTemp + s.hysteresis

C26_HysteresisBand ==
    op = "tick" =>
        LET m == AtEvaluate
        IN (AutomaticControl(m) /\ InBand(m))
           => /\ th.out = m.out
              /\ th.fireplaceOn = m.fireplaceOn
              /\ th.heatingStartTime = m.heatingStartTime
              /\ th.lastStateChange = m.lastStateChange
              /\ th.state = IF m.fireplaceOn THEN "HEATING" ELSE "SATISFIED"

\* the heater believed on, the temperature exactly on the upper bound and
\* the cycle time elapsed: nothing is sent
C26_Witness ==
    /\ op = "tick"
    /\ AutomaticControl(AtEvaluate)
    /\ AtEvaluate.fireplaceOn
    /\ AtEvaluate.currentTemp = AtEvaluate.targetTemp + AtEvaluate.hysteresis
    /\ CycleElapsed(AtEvaluate)
    /\ th.out = <<>>
    /\ th.state = "HEATING"

(* C27: when a cooldown expires in an update() with mode Heat, no hold,    *)
(* valid sensor data, the temperature below target - hysteresis and the    *)
(* cycle time elapsed, the heat element is commanded on again.             *)
C27_ControlReturnsAfterCooldown ==
    (/\ op = "tick"
     /\ was.inCooldown /\ ~th.inCooldown
     /\ AutomaticControl(th)
     /\ th.currentTemp < th.targetTemp - th.hysteresis
     /\ CycleElapsed(was))
    => heatOnSince # 0

(* C28: after every update() in Heat mode, state COOLDOWN implies          *)
(* inCooldown, state HOLD implies an active hold, state IDLE implies       *)
(* invalid sensor data, and when the cycle time blocks a transition the    *)
(* state is HEATING if the heater is believed on, and SATISFIED or the     *)
(* hysteresis state from before if it is believed off.                     *)
C28_StateNotStale ==
    (op = "tick" /\ th.mode = "HEAT") =>
        /\ th.state = "COOLDOWN" => th.inCooldown
        /\ th.state = "HOLD" => th.holdActive
        /\ th.state = "IDLE" => ~SensorFresh(th)
        /\ (AutomaticControl(th) /\ TogglePending /\ ~CycleElapsed(was)) =>
              IF th.fireplaceOn THEN th.state = "HEATING"
              ELSE th.state \in {"SATISFIED", "HEATING"}

(* C30: the runtime-limit shutoff of update() sends HeatOff and nothing    *)
(* else, and leaves fireplaceOn, the believed light level, the hold and    *)
(* lastStateChange as they were; in Heat mode, when the detector infers    *)
(* nothing in that update(), HeatOff is its only command and the update()  *)
(* ends with these fields as checkRuntimeLimit() found them.               *)
ShutOffAtTick ==
    op = "tick" /\ BeforeDetect(was, now) # BeforeRuntimeCheck(was, now)

C30_RuntimeShutoffFrame ==
    ShutOffAtTick =>
        LET p == BeforeRuntimeCheck(was, now)
            q == BeforeDetect(was, now)
        IN /\ q.out = Append(p.out, Cmd("HeatOff"))
           /\ q.fireplaceOn = p.fireplaceOn
           /\ q.ir = p.ir
           /\ q.holdActive = p.holdActive
           /\ q.holdStartTime = p.holdStartTime
           /\ q.holdDuration = p.holdDuration
           /\ q.lastStateChange = p.lastStateChange
           /\ (th.mode = "HEAT" /\ AtEvaluate.fireplaceOn = was.fireplaceOn) =>
                 /\ th.out = << Cmd("HeatOff") >>
                 /\ th.fireplaceOn = was.fireplaceOn
                 /\ th.ir.lightLevel = was.ir.lightLevel
                 /\ th.holdActive = p.holdActive
                 /\ th.holdStartTime = was.holdStartTime
                 /\ th.lastStateChange = was.lastStateChange

\* a shutoff in Heat mode after the automatic heat-on sequence, which left
\* the believed light level at 0
C30_Witness ==
    /\ ShutOffAtTick
    /\ th.mode = "HEAT"
    /\ th.out = << Cmd("HeatOff") >>
    /\ th.fireplaceOn
    /\ th.inCooldown
    /\ th.state = "COOLDOWN"

----------------------------------------------------------------------------
(* C21: when the sample of an update() brings the consecutive-sample       *)
(* counter to TREND_SAMPLES_REQUIRED with direction rising while the       *)
(* heater is believed off, detectExternalRemote sets fireplaceOn,          *)
(* heatingStartTime = now, resets the counter and enters the hold; with    *)
(* direction falling while the heater is believed on it clears fireplaceOn *)
(* and heatingStartTime, resets the counter and enters the hold; in every  *)
(* other case it changes neither the believed heater state nor the hold    *)
(* and sends nothing.  In Heat mode the update() ends in that hold.        *)
AtDetect == BeforeDetect(was, now)

\* the detector takes a sample and has a previous one to compare with
Sampled(p) ==
    /\ SensorFresh(p)
    /\ now - p.lastTrendSample >= TREND_SAMPLE_INTERVAL
    /\ p.previousTemp # 0

SampleDirection(p) ==
    LET delta == p.currentTemp - p.previousTemp
    IN IF delta > TREND_RISING_THRESHOLD THEN 1
       ELSE IF delta < TREND_FALLING_THRESHOLD THEN -1
       ELSE 0

\* the sample is the TREND_SAMPLES_REQUIRED-th in a row in direction dir
TrendReached(p, dir) ==
    /\ Sampled(p)
    /\ SampleDirection(p) = dir
    /\ (IF p.trendDirection = dir THEN Inc8(p.consecutiveTrend) ELSE 1)
          >= TREND_SAMPLES_REQUIRED

HoldFrom(s) == <<s.holdActive, s.holdStartTime, s.holdDuration>>

C21_ExternalRemoteDetection ==
    op = "tick" =>
        LET p == AtDetect
            d == AtEvaluate
            inferred == \/ TrendReached(p, 1) /\ ~p.fireplaceOn
                        \/ TrendReached(p, -1) /\ p.fireplaceOn
        IN /\ (TrendReached(p, 1) /\ ~p.fireplaceOn) =>
                 d.fireplaceOn /\ d.heatingStartTime = now
           /\ (TrendReached(p, -1) /\ p.fireplaceOn) =>
                 ~d.fireplaceOn /\ d.heatingStartTime = 0
           /\ inferred =>
                 /\ d.consecutiveTrend = 0
                 /\ HoldFrom(d) = <<TRUE, now, HOLD_DURATION_MS>>
                 /\ th.fireplaceOn = d.fireplaceOn \/ th.mode = "OFF"
                 /\ th.mode = "HEAT" =>
                       /\ HoldFrom(th) = HoldFrom(d)
                       /\ th.state = IF th.inCooldown THEN "COOLDOWN" ELSE "HOLD"
           /\ ~inferred =>
                 /\ d.fireplaceOn = p.fireplaceOn
                 /\ d.heatingStartTime = p.heatingStartTime
                 /\ HoldFrom(d) = HoldFrom(p)
                 /\ d.out = p.out

\* three falling samples while the heater is believed on
C21_Witness ==
    /\ op = "tick"
    /\ TrendReached(AtDetect, -1)
    /\ AtDetect.fireplaceOn
    /\ ~th.fireplaceOn
    /\ th.holdActive
    /\ th.holdStartTime = now

(* C22: while a rising trend is not broken, rising samples cause at most   *)
(* one detection of an external power-on and one activation of the hold,   *)
(* in every mode.                                                          *)
C22_DetectsOnce == detections <= 1

----------------------------------------------------------------------------
(* C24: while WiFi stays unavailable loop() keeps running, so that         *)
(* update() keeps being called, and the device is never restarted, so that *)
(* the runtime state of the Thermostat is never discarded.                 *)
C24_LocalControlSurvivesOutage ==
    /\ host.running
    /\ host.restarts = 0

(* C25: no handler runs while loop() is inside turnFireplaceOn(): between  *)
(* its first call on the IR sender and its last one, every step is one of  *)
(* the update() that began the sequence.                                   *)
C25_NoHandlerInsideTurnOn ==
    pc # 0 => op \in {"tick", "turnOnStep"}

(* C29: an update() that turns the heater on has made exactly these calls  *)
(* on the IR sender, in this order and with nothing in between: power-on,  *)
(* heat-on, set-temperature to target + offset, light level assumed 4,     *)
(* four light toggles; after it the believed light level is 0, fireplaceOn *)
(* is true and heatingStartTime and lastStateChange are now.  An update()  *)
(* that turns it off adds the single call power-off.                       *)
TurnedOn ==
    \/ op = "tick" /\ pc = 0 /\ th.fireplaceOn /\ ~AtEvaluate.fireplaceOn
    \/ op = "turnOnEnd"

TurnedOff ==
    op = "tick" /\ ~th.fireplaceOn /\ AtEvaluate.fireplaceOn

C29_OnSequenceOrder ==
    /\ TurnedOn =>
          /\ th.out = OnSequence(th)
          /\ th.ir.lightLevel = 0
          /\ th.fireplaceOn
          /\ th.heatingStartTime = now
          /\ th.lastStateChange = now
    /\ TurnedOff => th.out = Append(AtEvaluate.out, Cmd("PowerOff"))

----------------------------------------------------------------------------
(* C31: the detector takes no sample while the sensor data is invalid or   *)
(* before TREND_SAMPLE_INTERVAL has elapsed since the previous sample;     *)
(* every sample stores the current temperature in previousTemp; a sample   *)
(* with a previous one to compare with, when nothing is inferred from it,  *)
(* leaves the counter one higher if its direction repeats the current      *)
(* non-stable direction, at 1 if it is a new non-stable direction and at 0 *)
(* if it is stable.                                                        *)
TakesSample(p) ==
    SensorFresh(p) /\ now - p.lastTrendSample >= TREND_SAMPLE_INTERVAL

C31_ConsecutiveSampleCounter ==
    op = "tick" =>
        LET p == AtDetect
            d == AtEvaluate
            dir == SampleDirection(p)
        IN /\ ~TakesSample(p) => d = p
           /\ TakesSample(p) =>
                 d.previousTemp = p.currentTemp /\ d.lastTrendSample = now
           /\ (Sampled(p) /\ d.fireplaceOn = p.fireplaceOn) =>
                 /\ d.trendDirection = dir
                 /\ d.consecutiveTrend =
                       IF dir = 0 THEN 0
                       ELSE IF dir = p.trendDirection
                            THEN p.consecutiveTrend + 1
                       ELSE 1

(* C32: the first sample ever, and the first sample after a period in      *)
(* which sampling was skipped because the sensor data was invalid, only    *)
(* stores the current temperature in previousTemp: direction, counter,     *)
(* believed heater state and hold stay as they were.  (update() runs at    *)
(* every clock value, so a sample later than one interval after the        *)
(* previous one follows such a period.)                                    *)
AfterGap(p) ==
    \/ p.lastTrendSample = 0
    \/ now - p.lastTrendSample > TREND_SAMPLE_INTERVAL

C32_BaselineAfterGap ==
    (op = "tick" /\ TakesSample(AtDetect) /\ AfterGap(AtDetect)) =>
        LET p == AtDetect
            d == AtEvaluate
        IN /\ d.previousTemp = p.currentTemp
           /\ d.trendDirection = p.trendDirection
           /\ d.consecutiveTrend = p.consecutiveTrend
           /\ d.fireplaceOn = p.fireplaceOn
           /\ HoldFrom(d) = HoldFrom(p)


\* the single-code operations of the IRController
CodeOps == {"PowerOn", "PowerOff", "HeatOn", "HeatOff", "sendHeatUp",
            "sendHeatDown", "sendLightToggle"}

\* a call made now would come too early after the last transmission
TooEarly == sender.lastTx # -1 /\ sender.clock - sender.lastTx < MIN_SEND_INTERVAL

\* C33: no two IR transmissions start less than MIN_SEND_INTERVAL apart,
\* whatever operations are requested, and a single-code operation requested
\* earlier than that after the last transmission transmits nothing.
C33_MinimumSendSpacing ==
    /\ [](sender.gap >= MIN_SEND_INTERVAL)
    /\ [][(TooEarly /\ op' \in CodeOps)
            => (sender'.txs = 0 /\ sender'.lastTx = sender.lastTx
                /\ sender'.clock = sender.clock)]_vars

\* a power-off code requested 150 ms after a transmission was dropped
C33_Witness ==
    /\ op = "PowerOff"
    /\ sender.txs = 0
    /\ sender.lastTx # -1
    /\ sender.clock - sender.lastTx = SEND_DURATION

\* t rounded to an even number (odd values go up) and clamped to [60,80]
RoundedAndClamped(t) ==
    IF t >= 80 THEN 80
    ELSE IF t <= 60 THEN 60
    ELSE IF t % 2 = 0 THEN t ELSE t + 1

EvenTemps == {60 + 2 * k : k \in 0..10}

\* C38: sendTemp(t) returns for every int t, leaving the believed fireplace
\* temperature at t rounded to an even number and clamped to [60,80]; after
\* any sendTemp, sendHeatUp, sendHeatDown and setCurrentTemp calls the
\* believed temperature is an even integer in [60,80].
C38_SendTempReachesClampedEven ==
    /\ sender.done
    /\ sender.currentTemp \in EvenTemps
    /\ op = "sendTemp" => sender.currentTemp = RoundedAndClamped(arg)

\* the documented cycles of the light level and of the timer state
LightCycle == <<0, 4, 3, 2, 1>>
TimerCycle == <<0, 1, 2, 3, 4, 5, 6, 7, 8, 9, 10>>

\* the value after v in the cycle c
Following(c, v) ==
    LET i == CHOOSE j \in 1..Len(c) : c[j] = v
    IN c[(i % Len(c)) + 1]

\* the sender after n light toggles, and after n timer toggles
RECURSIVE LightToggled(_, _)
LightToggled(x, n) ==
    IF n = 0 THEN x ELSE LightToggled(SendLightToggleOn(x), n - 1)

RECURSIVE TimerToggled(_, _)
TimerToggled(x, n) ==
    IF n = 0 THEN x ELSE TimerToggled(SendTimerToggleOn(x), n - 1)

\* C39: each light toggle moves the light level one step along
\* 0 -> 4 -> 3 -> 2 -> 1 -> 0 and each timer toggle moves the timer state
\* one step along 0 -> 1 -> ... -> 10 -> 0; five light toggles and eleven
\* timer toggles return to the starting value; the light level stays in
\* 0..4 and the timer state in 0..10.
C39_LightAndTimerCycles ==
    /\ [](/\ sender.lightLevel \in 0..4
          /\ sender.timerState \in 0..10
          /\ LightToggled(sender, Len(LightCycle)).lightLevel = sender.lightLevel
          /\ TimerToggled(sender, Len(TimerCycle)).timerState = sender.timerState)
    /\ [][/\ op' = "sendLightToggle" =>
               /\ sender'.lightLevel = Following(LightCycle, sender.lightLevel)
               /\ sender'.timerState = sender.timerState
          /\ op' = "sendTimerToggle" =>
               /\ sender'.timerState = Following(TimerCycle, sender.timerState)
               /\ sender'.lightLevel = sender.lightLevel]_vars

\* a timer toggle took the timer from 9 hr back to off with the light at 4
C39_Witness ==
    /\ op = "sendTimerToggle"
    /\ sender.timerState = 0
    /\ sender.lightLevel = 4



\* the persisted settings
SettingsOf(s) == <<s.targetTemp, s.hysteresis, s.mode, s.fireplaceOffset>>

\* the debounce state of the settings store
PendingOf(s) == <<s.settingsPendingSave, s.lastSettingsChange>>

\* a save was due when the operation began
SaveDue ==
    /\ was.settingsPendingSave
    /\ now - was.lastSettingsChange >= SETTINGS_SAVE_DEBOUNCE_MS

\* what every setter in the set ops does to the debounce state
MarksWhenChanged(ops) ==
    op \in ops =>
        /\ th.saves = 0
        /\ IF SettingsOf(th) # SettingsOf(was)
           THEN th.settingsPendingSave /\ th.lastSettingsChange = now
           ELSE PendingOf(th) = PendingOf(was)

\* update() writes when, and only when, a save is due, and clears the flag
WritesWhenDue ==
    op = "tick" =>
        /\ th.saves = IF SaveDue THEN 1 ELSE 0
        /\ th.settingsPendingSave = (was.settingsPendingSave /\ ~SaveDue)
        /\ th.lastSettingsChange = was.lastSettingsChange

\* C34: every change of target, hysteresis, mode or offset marks
\* the store dirty and restarts the debounce timer, a setter call that
\* changes nothing does not, and the only writes are those of a tick with
\* the debounce interval elapsed, which clears the dirty flag.
C34_SettingsDebounce ==
    /\ MarksWhenChanged({"setTargetTemp", "setHysteresis", "setMode",
                         "setFireplaceOffset"})
    /\ WritesWhenDue
    /\ th.saves > 0 => op = "tick"


\* C35: whatever minutes a hold request of the REST or MQTT layer carries
\* (zero, negative, above MAX_HOLD_MINUTES), the hold duration of the
\* Thermostat never exceeds MAX_HOLD_MINUTES minutes.
C35_HoldDurationCapped ==
    /\ HOLD_DURATION_MS <= MAX_HOLD_MINUTES * MS_PER_MINUTE
    /\ th.holdDuration <= MAX_HOLD_MINUTES * MS_PER_MINUTE
    /\ (op \in {"restHold", "mqttHold"} /\ arg > 0 /\ arg <= MAX_HOLD_MINUTES)
          => (th.holdActive /\ th.holdDuration = arg * MS_PER_MINUTE)

\* a REST request for more than the maximum started a hold of the default
\* duration
C35_Witness ==
    /\ op = "restHold"
    /\ arg > MAX_HOLD_MINUTES
    /\ th.holdActive
    /\ th.holdDuration = HOLD_DURATION_MS

\* what a request may change according to C36
RequestEffect(s) == <<s.holdActive, s.holdDuration, s.targetTemp>>

\* C36: a hold request and a target request change holdActive,
\* holdDuration and targetTemp in the same way whether they arrive via REST
\* or via MQTT, also with minutes of zero or above the maximum or a target
\* outside the valid range.
C36_SameEffectOnBothPaths ==
    /\ op = "restHold" =>
          RequestEffect(th) = RequestEffect(MqttHoldOn(was, now, arg))
    /\ op = "mqttHold" =>
          RequestEffect(th) = RequestEffect(HandleHoldEnterOn(was, now, arg))
    /\ op = "restTarget" =>
          RequestEffect(th) = RequestEffect(MqttTargetOn(was, now, arg))
    /\ op = "mqttTarget" =>
          RequestEffect(th) = RequestEffect(HandleSetTargetOn(was, now, arg))

\* the sensor message just handled was oversized, not finite or out of range
InvalidTelemetry ==
    \/ op \in {"mqttTempOversized", "mqttHumidityOversized"}
    \/ /\ op = "mqttTemp"
       /\ arg \in {NaN, Inf, NegInf} \/ arg < MIN_VALID_TEMP \/ arg > MAX_VALID_TEMP
    \/ /\ op = "mqttHumidity"
       /\ arg \in {NaN, Inf, NegInf} \/ arg < 0 \/ arg > 100

\* C37: a temperature or humidity message that is oversized, not finite or
\* out of range leaves the Thermostat as it was: currentTemp,
\* currentHumidity, lastSensorUpdate and every other field.
C37_InvalidTelemetryIgnored ==
    /\ InvalidTelemetry => th = was
    /\ (op = "mqttTemp" /\ ~InvalidTelemetry) =>
          th.currentTemp = arg /\ th.lastSensorUpdate = now

\* an infinite temperature arrived after a valid one and changed nothing
C37_Witness ==
    /\ op = "mqttTemp"
    /\ arg = Inf
    /\ th.currentTemp = 130
    /\ th.lastSensorUpdate > 0



\* millis() after e more clock units
ClockAfter(e) == (now + e) % CLOCK_MOD

\* the elapsed times the checks are projected over
Horizon == 0..(MAX_RUNTIME_MS + 1)

\* C40: the elapsed-time checks depend only on the true elapsed time, also
\* when the clock wraps and when a timestamp or the clock is exactly 0.
\* From a timestamp recorded now: the sensor data is valid for less than
\* SENSOR_STALE_TIMEOUT, a toggle is allowed from MIN_CYCLE_TIME on, the
\* hold lasts for holdDuration, the cooldown for COOLDOWN_DURATION_MS, and
\* the runtime limit acts from MAX_RUNTIME_MS on.
C40_ElapsedTimeAcrossWrap ==
    \A e \in Horizon :
        /\ op = "sensorTemp" =>
              (IsSensorDataValid(th, ClockAfter(e)) <=> e < SENSOR_STALE_TIMEOUT)
        /\ op \in {"manualOn", "manualOff"} =>
              (CanChangeState(th, ClockAfter(e)) <=> e >= MIN_CYCLE_TIME)
        /\ op \in {"manualOn", "manualOff", "enterHold"} =>
              (HoldExpiry(th, ClockAfter(e)).holdActive <=> e < th.holdDuration)
        /\ (op = "tick" /\ th.inCooldown /\ ~was.inCooldown) =>
              (CheckCooldownComplete(th, ClockAfter(e)).inCooldown
                  <=> e < COOLDOWN_DURATION_MS)
        /\ op = "manualOn" =>
              (CheckRuntimeLimit(th, ClockAfter(e)).inCooldown
                  <=> e >= MAX_RUNTIME_MS)


====
